---- MODULE Spec2Model ----
(***************************************************************************)
(* The snap account fetcher of the client's sync layer                     *)
(* (packages/client/lib/sync/fetcher/accountfetcher.ts): the AccountFetcher*)
(* specialization (convertSlimAccount, request, process, store, tasks,     *)
(* nextTasks, clear, peer) driven by the generic Fetcher engine.  The      *)
(* engine (fetcher.ts), the peer pool and the trie library are not part of *)
(* the sources at hand: the engine's job life cycle is modelled from the   *)
(* design document, the trie as a key->value map whose put() is            *)
(* asynchronous, the range-proof verifier and the peers as oracles.        *)
(*                                                                         *)
(* Spec and LiveSpec run the engine over a few answers; ReqSpec follows one*)
(* task through request() and store() over every answer, PeerSpec starts   *)
(* from pools short of snap peers, StoreSpec and CodecSpec call store() and*)
(* convertSlimAccount on their own.                                        *)
(***************************************************************************)
EXTENDS Integers, Sequences, FiniteSets, TLC

\* ------------------------------------------------------------------ bounds
MaxHash == 2          \* account hashes are 1..MaxHash
MaxJobs == 3          \* jobs held by the engine at once (queued, active, pending)
MaxPending == 2       \* trie writes in flight at once
MaxFetcherJobs == 2   \* config.maxFetcherJobs
NumSnapPeers == 3     \* peers advertising snap
CoverCap == 2         \* saturation of the per-key emission counter
MaxAccounts == 2      \* accounts in one response, where responses are enumerated in full

VARIABLES
    origin,           \* AccountFetcher.origin
    limit,            \* AccountFetcher.limit
    jobs,             \* the engine's jobs not yet stored, in task-generation order
    accountTrie,      \* AccountFetcher.accountTrie: hash -> canonical value (<<>>: absent)
    pendingPuts,      \* accountTrie.put() promises started and not yet settled
    done,             \* the engine has signalled completion to its owner
    pool,             \* the peers connected to the pool the fetcher draws from
    coverCount,       \* observer: how many emitted tasks cover each key (saturating)
    lastOp            \* observer: the operation that ran last, and what it did

vars == <<origin, limit, jobs, accountTrie, pendingPuts, done, pool,
          coverCount, lastOp>>

\* ------------------------------------------------------------- data model
\* AccountFetcherOptions.destroyWhenDone: the runs modelled are those that ask
\* to be told when all tasks are done
DestroyWhenDone == TRUE

Root == "root"
Hashes == 1..MaxHash
Keys == 0..(MaxHash + 1)

\* @ethereumjs/util sentinels, cut to two bytes
KECCAK256_RLP == <<86, 232>>
KECCAK256_NULL == <<197, 210>>

\* wire ("slim") account bodies a peer may send; <<>> has no fields at all
BodyA == << <<1>>, <<>>, <<>>, <<>> >>
BodyC == << <<2>>, <<>>, <<>>, <<>> >>
BodyBad == << >>
Bodies == {BodyA, BodyC, BodyBad}

Account(h, b) == [hash |-> h, body |-> b]

\* the account lists a peer answers with: one account, one hash twice with
\* different bodies, a body without fields
AccountLists ==
    {<<Account(1, BodyA)>>,
     <<Account(1, BodyA), Account(1, BodyC)>>,
     <<Account(2, BodyBad)>>}

JobTask(o, l) == [origin |-> o, limit |-> l]

\* BodyA with the empty-trie root and the empty-code hash spelt out
BodyS == << <<1>>, <<>>, KECCAK256_RLP, KECCAK256_NULL >>

SeqsUpTo(S, n) == UNION {[1..k -> S] : k \in 0..n}

\* every account list up to MaxAccounts over well-formed bodies: empty,
\* unordered, with a hash repeated
WideAccountLists ==
    SeqsUpTo({Account(h, b) : h \in Hashes, b \in {BodyA, BodyC, BodyS}}, MaxAccounts)

\* --------------------------------------------------------- the codec
RlpItem(s) == IF Len(s) = 1 /\ s[1] < 128 THEN s ELSE <<128 + Len(s)>> \o s

RECURSIVE RlpPayload(_)
RlpPayload(items) ==
    IF items = <<>> THEN <<>>
    ELSE RlpItem(Head(items)) \o RlpPayload(Tail(items))

RlpEncode(items) ==
    LET p == RlpPayload(items)
    IN  IF Len(p) < 56 THEN <<192 + Len(p)>> \o p ELSE <<248, Len(p)>> \o p

\* body[2] or body[3] is undefined: arrToBufArr throws
ConvertThrows(body) == Len(body) < 4

\* mutant: each sentinel is written to the other field
convertSlimAccountSentinelsSwapped(body) ==
    LET cpy == <<body[1], body[2],
                 IF Len(body[3]) = 0 THEN KECCAK256_NULL ELSE body[3],
                 IF Len(body[4]) = 0 THEN KECCAK256_RLP ELSE body[4]>>
    IN  RlpEncode(cpy)

\* mutant: nonce and balance are copied to each other's place
convertSlimAccountFieldsSwapped(body) ==
    LET cpy == <<body[2], body[1],
                 IF Len(body[3]) = 0 THEN KECCAK256_RLP ELSE body[3],
                 IF Len(body[4]) = 0 THEN KECCAK256_NULL ELSE body[4]>>
    IN  RlpEncode(cpy)

convertSlimAccount(body) ==
    LET cpy == <<body[1], body[2],
                 IF Len(body[3]) = 0 THEN KECCAK256_RLP ELSE body[3],
                 IF Len(body[4]) = 0 THEN KECCAK256_NULL ELSE body[4]>>
    IN  RlpEncode(cpy)

\* body once convertSlimAccount(body) has returned: the sentinels are written
\* to cpy, another array
BodyAfterConvert(body) == body

\* convertSlimAccount applied to a value of either form, a record of fields or
\* the bytes it returns: the items of a byte string are numbers, of which
\* arrToBufArr makes no buffer
Record(body) == [form |-> "record", v |-> body]

NotApplied == [form |-> "none", v |-> <<>>]

Normalize(x) ==
    IF x.form = "record" /\ ~ConvertThrows(x.v)
    THEN [form |-> "bytes", v |-> convertSlimAccount(x.v)]
    ELSE [form |-> "throws", v |-> <<>>]

\* ------------------------------------------------- the transient trie
EmptyTrie == [h \in Hashes |-> <<>>]

TriePut(t, k, v) == [t EXCEPT ![k] = v]

TrieGet(t, k) == t[k]

RECURSIVE PutAll(_, _)
PutAll(t, accounts) ==
    IF accounts = <<>> THEN t
    ELSE PutAll(TriePut(t, Head(accounts).hash, convertSlimAccount(Head(accounts).body)),
                Tail(accounts))

HashesOf(accounts) == [i \in 1..Len(accounts) |-> accounts[i].hash]

ValuesOf(accounts) == [i \in 1..Len(accounts) |-> convertSlimAccount(accounts[i].body)]

\* ------------------------------------------------- peers and their answers
SnapPeers == 1..NumSnapPeers
PlainPeer == NumSnapPeers + 1
Peers == SnapPeers \cup {PlainPeer}
NoPeer == 0
NoKey == 0

Proof == <<"node">>

\* what peer.snap.getAccountRange() may produce: a failed call, null, a body
\* lacking accounts or proof, or an account range with its proof
Response(k, a) == [kind |-> k, accounts |-> a, proof |-> Proof]

Responses ==
    {Response(k, <<>>) : k \in {"throw", "null", "noAccounts", "noProof"}}
    \cup {Response("range", a) : a \in AccountLists}

\* what trie.verifyRangeProof() may do
Verdicts == {"true", "false", "throw"}

\* one request's environment: the peer's answer, the verifier's verdict on it and
\* whether a put into the transient trie fails (each named only where it is read)
Answers ==
    {a \in [resp : Responses, verdict : Verdicts, putFails : BOOLEAN] :
        /\ a.resp.kind # "range" => a.verdict = "true"
        /\ (a.resp.kind # "range" \/ a.resp.accounts = <<>> \/ a.verdict # "true")
              => ~a.putFails}

\* the same with every account list, and with no accounts under a proof that
\* has no nodes
WideAnswers ==
    {a \in [resp : {Response(k, <<>>) : k \in {"throw", "null", "noAccounts", "noProof"}}
                   \cup {Response("range", l) : l \in WideAccountLists}
                   \cup {[Response("range", <<>>) EXCEPT !.proof = <<>>]},
            verdict : Verdicts, putFails : BOOLEAN] :
        /\ a.resp.kind # "range" => a.verdict = "true"
        /\ (a.resp.kind # "range" \/ a.resp.accounts = <<>> \/ a.verdict # "true")
              => ~a.putFails}

\* ------------------------------------------------- AccountFetcher.request
NoCall == [made |-> FALSE, root |-> Root, firstKey |-> NoKey, lastKey |-> NoKey,
           keys |-> <<>>, values |-> <<>>]

Outcome(k, a, c) == [kind |-> k, accounts |-> a, call |-> c]

\* mutant: the proof field is not looked at
IsIncompleteNoProof(resp) == resp.kind \in {"null", "noAccounts"}

\* !rangeResult || !rangeResult.accounts || !rangeResult.proof
IsIncomplete(resp) == resp.kind \in {"null", "noAccounts", "noProof"}

\* the arguments request() hands to trie.verifyRangeProof()
VerifierCall(thisOrigin, task, accounts) ==
    [made |-> TRUE, root |-> Root, firstKey |-> thisOrigin,
     lastKey |-> IF accounts = <<>> THEN NoKey ELSE accounts[Len(accounts)].hash,
     keys |-> HashesOf(accounts), values |-> ValuesOf(accounts)]

\* mutant: the value read back is not compared
PostCheckPresent(trie, accounts) ==
    \A i \in 1..Len(accounts) : TrieGet(trie, accounts[i].hash) # <<>>

\* the second loop: every account can be read back from the transient trie
PostCheckOk(trie, accounts) ==
    \A i \in 1..Len(accounts) :
        /\ TrieGet(trie, accounts[i].hash) # <<>>
        /\ TrieGet(trie, accounts[i].hash) = convertSlimAccount(accounts[i].body)

\* mutant: the verifier's boolean is not looked at
ProofAcceptedUnlessThrown(verdict) == verdict # "throw"

\* the verdict of the try block around verifyRangeProof
ProofAccepted(verdict) == verdict = "true"

\* mutant: request()'s puts go to the fetcher's own trie
RequestTrieIsAccountTrie == TRUE

\* const trie = new Trie(): request()'s trie is not this.accountTrie
RequestTrieShared == FALSE

Ordered(accounts) ==
    \A i \in 1..(Len(accounts) - 1) : accounts[i].hash <= accounts[i + 1].hash

\* mutant: a response out of order is refused
OrderingRejectsUnordered(accounts) == ~Ordered(accounts)

\* the monotonicity check of the first loop: it writes to the debug log
OrderingRejects(accounts) == FALSE

Request(thisOrigin, task, resp, verdict, putFails) ==
    IF resp.kind = "throw" THEN Outcome("rejected", <<>>, NoCall)
    ELSE IF IsIncomplete(resp) THEN Outcome("undefined", <<>>, NoCall)
    ELSE IF (putFails /\ resp.accounts # <<>>) \/ \E i \in 1..Len(resp.accounts) : ConvertThrows(resp.accounts[i].body)
         THEN Outcome("rejected", <<>>, NoCall)
    ELSE LET accounts == resp.accounts
             trie == PutAll(IF RequestTrieShared THEN accountTrie ELSE EmptyTrie, accounts)
             call == VerifierCall(thisOrigin, task, accounts)
         IN  IF OrderingRejects(accounts) THEN Outcome("undefined", <<>>, NoCall)
             ELSE IF ~ProofAccepted(verdict) THEN Outcome("undefined", <<>>, call)
             ELSE IF ~PostCheckOk(trie, accounts) THEN Outcome("undefined", <<>>, call)
             ELSE Outcome("accounts", accounts, call)

\* this.accountTrie once request() has returned
PersistentAfterRequest(resp, putFails) ==
    IF /\ RequestTrieShared
       /\ resp.kind = "range"
       /\ ~putFails
       /\ \A i \in 1..Len(resp.accounts) : ~ConvertThrows(resp.accounts[i].body)
    THEN PutAll(accountTrie, resp.accounts)
    ELSE accountTrie

\* mutant: the last element is lost
processAllButLast(job, result) == SubSeq(result, 1, Len(result) - 1)

\* AccountFetcher.process
process(job, result) == result

\* ------------------------------------------------- AccountFetcher.store
\* whether the loop waits for the promise accountTrie.put() returns: the call
\* is written without await
StoreAwaitsPut == FALSE

\* mutant: the loop starts at the second element
StorePutsFromSecond(result) ==
    [i \in 1..(Len(result) - 1) |->
        [key |-> result[i + 1].hash, value |-> convertSlimAccount(result[i + 1].body),
         late |-> FALSE]]

\* the puts the loop starts before it ends or a synchronous throw ends it
RECURSIVE StorePuts(_)
StorePuts(result) ==
    IF result = <<>> \/ ConvertThrows(Head(result).body) THEN <<>>
    ELSE <<[key |-> Head(result).hash, value |-> convertSlimAccount(Head(result).body),
            late |-> FALSE]>> \o StorePuts(Tail(result))

\* ------------------------------------------------- AccountFetcher.tasks
tasks(o, l, maxTasks) == <<JobTask(o, l)>>

\* ------------------------------------------------- AccountFetcher.peer
IdlePeers == pool \ {jobs[i].peer : i \in 1..Len(jobs)}

\* mutant: the filter passed to pool.idle() is dropped
peerAnyIdle == IdlePeers

peer == {p \in IdlePeers : p \in SnapPeers}

\* the pool returns any one of them; peers that advertise the same protocols
\* are interchangeable, and the lowest stands for whichever is returned
Picked == CHOOSE p \in peer : \A q \in peer : p <= q

\* ------------------------------------------------- the engine's jobs
NoVouch == [made |-> FALSE, keys |-> <<>>, values |-> <<>>]

NewJob(t) == [task |-> t, state |-> "New", peer |-> NoPeer, result |-> <<>>,
              vouched |-> NoVouch]

ActiveCount == Cardinality({i \in 1..Len(jobs) : jobs[i].state = "Active"})

NewIndexes == {i \in 1..Len(jobs) : jobs[i].state = "New"}

\* the queue hands out its tasks in the order they were generated
NextNew == CHOOSE i \in NewIndexes : \A j \in NewIndexes : i <= j

Without(s, i) == [j \in 1..(Len(s) - 1) |-> IF j < i THEN s[j] ELSE s[j + 1]]

\* mutant: results are stored as they complete
StoreReadyAny == {i \in 1..Len(jobs) : jobs[i].state = "Completed"}

\* the job whose result the engine may hand to store(): the oldest one not yet
\* stored, once it is Completed
StoreReady == {i \in 1..Len(jobs) : i = 1 /\ jobs[i].state = "Completed"}

\* mutant: no concurrency bound
CanStartAlways == TRUE

\* the engine's concurrency bound
CanStart == ActiveCount < MaxFetcherJobs

Op(name) == [op |-> name, resp |-> "", verified |-> FALSE, out |-> ""]

Bump(n) == IF n < CoverCap THEN n + 1 ELSE n

RECURSIVE Cover(_, _)
Cover(count, ts) ==
    IF ts = <<>> THEN count
    ELSE Cover([k \in Keys |-> IF Head(ts).origin <= k /\ k < Head(ts).limit
                               THEN Bump(count[k]) ELSE count[k]], Tail(ts))

RECURSIVE Enqueue(_, _)
Enqueue(q, ts) == IF ts = <<>> THEN q ELSE Enqueue(Append(q, NewJob(Head(ts))), Tail(ts))

\* ------------------------------------------------------------------ Init
Init ==
    /\ origin \in 0..1
    /\ limit = MaxHash + 1
    /\ jobs = <<>>
    /\ accountTrie = EmptyTrie
    /\ pendingPuts = <<>>
    /\ done = FALSE
    /\ pool = Peers
    /\ coverCount = [k \in Keys |-> 0]
    /\ lastOp = Op("init")

\* --------------------------------------------------------------- actions
\* AccountFetcher.nextTasks, called by the engine when its queue is empty
NextTasks ==
    /\ ~done
    /\ NewIndexes = {}
    /\ Len(jobs) < MaxJobs
    /\ LET ts == tasks(origin, limit, MaxFetcherJobs)
       IN  /\ jobs' = Enqueue(jobs, ts)
           /\ coverCount' = Cover(coverCount, ts)
    /\ lastOp' = Op("nextTasks")
    /\ UNCHANGED <<origin, limit, accountTrie, pendingPuts, done, pool>>

\* the engine gives the next queued task to the peer that peer() returns
Dispatch ==
    /\ ~done
    /\ NewIndexes # {}
    /\ CanStart
    /\ peer # {}
    /\ jobs' = [jobs EXCEPT ![NextNew].state = "Active", ![NextNew].peer = Picked]
    /\ lastOp' = Op("dispatch")
    /\ UNCHANGED <<origin, limit, accountTrie, pendingPuts, done, pool,
                   coverCount>>

\* request(job) settles: the engine completes the job with the result, requeues
\* it when the result is undefined, and fails and drops it when request() rejects
Settle(answers, observed) ==
    /\ ~done
    /\ \E i \in 1..Len(jobs), a \in answers :
         LET job == jobs[i]
             r == Request(origin, job.task, a.resp, a.verdict, a.putFails)
         IN  /\ job.state = "Active"
             /\ jobs' =
                    CASE r.kind = "accounts" ->
                           [jobs EXCEPT ![i] =
                               [job EXCEPT !.state = "Completed", !.peer = NoPeer,
                                           !.result = process(job, r.accounts),
                                           !.vouched =
                                               IF r.call.made /\ a.verdict = "true"
                                               THEN [made |-> TRUE, keys |-> r.call.keys,
                                                     values |-> r.call.values]
                                               ELSE NoVouch]]
                      [] r.kind = "undefined" ->
                           [jobs EXCEPT ![i] = [job EXCEPT !.state = "New", !.peer = NoPeer]]
                      [] OTHER -> Without(jobs, i)
             /\ accountTrie' = PersistentAfterRequest(a.resp, a.putFails)
             /\ lastOp' = IF observed
                           THEN [op |-> "request", resp |-> a.resp.kind,
                                 verified |-> r.call.made, out |-> r.kind,
                                 task |-> job.task, answer |-> a, call |-> r.call]
                           ELSE [op |-> "request", resp |-> a.resp.kind,
                                 verified |-> r.call.made, out |-> r.kind]
    /\ UNCHANGED <<origin, limit, pendingPuts, done, pool, coverCount>>

RequestSettles == Settle(Answers, FALSE)

\* the engine hands the next in-order result to store().  store() starts one
\* put per account; awaited, each put is written (or fails into the catch
\* block, which logs and ends the loop) before store() resolves; not awaited,
\* the puts are left in flight behind those of earlier calls
store(result, seen) ==
    LET puts == StorePuts(result)
    IN  IF StoreAwaitsPut
        THEN /\ pendingPuts = <<>>
             /\ \E n \in 0..Len(puts) :
                  /\ accountTrie' = PutAll(accountTrie, SubSeq(result, 1, n))
                  /\ lastOp' = [seen EXCEPT
                                  !.out = IF n < Len(puts) THEN "logged" ELSE ""]
             /\ UNCHANGED pendingPuts
        ELSE /\ Len(pendingPuts) + Len(puts) <= MaxPending
             /\ pendingPuts' = [j \in 1..Len(pendingPuts) |->
                                   [pendingPuts[j] EXCEPT !.late = TRUE]] \o puts
             /\ lastOp' = seen
             /\ UNCHANGED accountTrie

StoreResult(observed) ==
    /\ ~done
    /\ \E i \in StoreReady :
         /\ store(jobs[i].result,
                  IF observed
                  THEN [op |-> "store", resp |-> "", verified |-> FALSE,
                        out |-> "", result |-> jobs[i].result]
                  ELSE Op("store"))
         /\ jobs' = Without(jobs, i)
    /\ UNCHANGED <<origin, limit, done, pool, coverCount>>

Store == StoreResult(FALSE)

\* the oldest put in flight is written to the trie
PutWritten(seen) ==
    /\ pendingPuts # <<>>
    /\ accountTrie' = TriePut(accountTrie, Head(pendingPuts).key, Head(pendingPuts).value)
    /\ pendingPuts' = Tail(pendingPuts)
    /\ lastOp' = seen
    /\ UNCHANGED <<origin, limit, jobs, done, pool, coverCount>>

PutApplied == PutWritten(Op("putApplied"))

\* the oldest put in flight fails: its promise rejects, and nothing awaits it
PutFailed(seen) ==
    /\ pendingPuts # <<>>
    /\ pendingPuts' = Tail(pendingPuts)
    /\ lastOp' = [seen EXCEPT !.out = "unhandled"]
    /\ UNCHANGED <<origin, limit, jobs, accountTrie, done, pool, coverCount>>

PutRejected == PutFailed(Op("putRejected"))

\* AccountFetcher.clear
Clear ==
    /\ lastOp' = Op("clear")
    /\ UNCHANGED <<origin, limit, jobs, accountTrie, pendingPuts, done, pool,
                   coverCount>>

\* nothing is queued, active or pending: the engine tells its owner
Complete ==
    /\ ~done
    /\ DestroyWhenDone
    /\ jobs = <<>>
    /\ done' = TRUE
    /\ lastOp' = Op("complete")
    /\ UNCHANGED <<origin, limit, jobs, accountTrie, pendingPuts, pool,
                   coverCount>>

Next ==
    \/ NextTasks
    \/ Dispatch
    \/ RequestSettles
    \/ Store
    \/ PutApplied
    \/ PutRejected
    \/ Clear
    \/ Complete

Spec == Init /\ [][Next]_vars

\* the scheduling the engine's loop provides: every step that stays possible is
\* taken, and a peer that can answer acceptably again and again does so
Accepted == RequestSettles /\ lastOp'.out = "accounts"

Fairness ==
    /\ WF_vars(NextTasks)
    /\ WF_vars(Dispatch)
    /\ SF_vars(Accepted)
    /\ WF_vars(Store)
    /\ WF_vars(PutApplied \/ PutRejected)
    /\ WF_vars(Complete)

LiveSpec == Init /\ [][Next]_vars /\ Fairness

\* ------------------------------------------- one task, observed in full
\* Fetcher.enqueueTask(task), called by the fetcher's owner once after
\* construction with a task of tasks(origin, limit) for an origin of its choice
EnqueueTask ==
    /\ lastOp.op = "init"
    /\ \E o \in 0..1 :
         LET ts == tasks(o, limit, MaxFetcherJobs)
         IN  /\ jobs' = Enqueue(jobs, ts)
             /\ coverCount' = Cover(coverCount, ts)
    /\ lastOp' = Op("enqueueTask")
    /\ UNCHANGED <<origin, limit, accountTrie, pendingPuts, done, pool>>

\* request(job) settles on any answer; the step records the task, the answer
\* and the verifier call
RequestObserved == Settle(WideAnswers, TRUE)

\* store(result); the step records the batch handed over
StoreObserved == StoreResult(TRUE)

ReqNext ==
    \/ EnqueueTask
    \/ Dispatch
    \/ RequestObserved
    \/ StoreObserved
    \/ PutApplied
    \/ PutRejected
    \/ Complete

ReqSpec == Init /\ [][ReqNext]_vars

\* ------------------------------------------- store() called on its own
\* the batches store() is called with
StoreBatches ==
    SeqsUpTo({Account(h, b) : h \in Hashes, b \in {BodyA, BodyC}}, MaxAccounts)

\* the trie before the first call: empty, or holding one account
StoreInit ==
    /\ origin = 0
    /\ limit = MaxHash + 1
    /\ jobs = <<>>
    /\ accountTrie \in {EmptyTrie}
                       \cup {TriePut(EmptyTrie, h, convertSlimAccount(BodyC)) : h \in Hashes}
    /\ pendingPuts = <<>>
    /\ done = FALSE
    /\ pool = Peers
    /\ coverCount = [k \in Keys |-> 0]
    /\ lastOp = Op("init")

\* store(result), first call; the step records the trie it found and the batch
StoreCalled ==
    /\ lastOp.op = "init"
    /\ \E b \in StoreBatches :
         store(b, [op |-> "store", resp |-> "", verified |-> FALSE, out |-> "",
                   start |-> accountTrie, result |-> b, calls |-> 1])
    /\ UNCHANGED <<origin, limit, jobs, done, pool, coverCount>>

\* store(result) again with the same batch, whether or not the writes of the
\* first call have landed
StoreRepeated ==
    /\ lastOp.op # "init"
    /\ lastOp.calls = 1
    /\ store(lastOp.result, [lastOp EXCEPT !.op = "store", !.calls = 2])
    /\ UNCHANGED <<origin, limit, jobs, done, pool, coverCount>>

PutAppliedObserved == PutWritten([lastOp EXCEPT !.op = "putApplied"])

PutRejectedObserved == PutFailed([lastOp EXCEPT !.op = "putRejected"])

StoreNext ==
    \/ StoreCalled
    \/ StoreRepeated
    \/ PutAppliedObserved
    \/ PutRejectedObserved

StoreSpec == StoreInit /\ [][StoreNext]_vars

\* ------------------------------------------- the codec called on its own
\* wire bodies of four fields: nonce, balance, storage root, code hash
SlimBodies ==
    {<<n, b, r, c>> : n \in {<<>>, <<1>>, <<129>>}, b \in {<<>>, <<2>>},
                      r \in {<<>>, KECCAK256_RLP, KECCAK256_NULL, <<7>>},
                      c \in {<<>>, KECCAK256_RLP, KECCAK256_NULL, <<7>>}}

\* RLP.decode of a list of byte strings
RECURSIVE RlpItems(_)
RlpItems(p) ==
    IF p = <<>> THEN <<>>
    ELSE IF p[1] < 128 THEN << <<p[1]>> >> \o RlpItems(Tail(p))
    ELSE << SubSeq(p, 2, p[1] - 127) >> \o RlpItems(SubSeq(p, p[1] - 126, Len(p)))

RlpDecode(bytes) ==
    IF bytes[1] < 248 THEN RlpItems(Tail(bytes)) ELSE RlpItems(Tail(Tail(bytes)))

\* convertSlimAccount(body); the step records the argument, what it is after
\* the call, and the value returned
Convert ==
    /\ lastOp.op = "init"
    /\ \E body \in SlimBodies :
         lastOp' = [op |-> "convert", resp |-> "", verified |-> FALSE, out |-> "",
                    body |-> body, after |-> BodyAfterConvert(body),
                    once |-> Normalize(Record(body)), again |-> NotApplied]
    /\ UNCHANGED <<origin, limit, jobs, accountTrie, pendingPuts, done, pool,
                   coverCount>>

\* convertSlimAccount called on the value it returned
ConvertOutput ==
    /\ lastOp.op = "convert"
    /\ lastOp' = [lastOp EXCEPT !.op = "convertOutput", !.again = Normalize(lastOp.once)]
    /\ UNCHANGED <<origin, limit, jobs, accountTrie, pendingPuts, done, pool,
                   coverCount>>

\* convertSlimAccount called on the record decoded from the value it returned
ConvertDecoded ==
    /\ lastOp.op = "convert"
    /\ lastOp.once.form = "bytes"
    /\ lastOp' = [lastOp EXCEPT !.op = "convertDecoded",
                                !.again = Normalize(Record(RlpDecode(lastOp.once.v)))]
    /\ UNCHANGED <<origin, limit, jobs, accountTrie, pendingPuts, done, pool,
                   coverCount>>

CodecNext ==
    \/ Convert
    \/ ConvertOutput
    \/ ConvertDecoded

CodecSpec == Init /\ [][CodecNext]_vars

\* ------------------------------------------- a pool short of snap peers
\* the pools the fetcher may be started with when at most one connected peer
\* advertises snap (snap peers are interchangeable: the lowest stands for any)
SmallPools ==
    LET first == {p \in SnapPeers : \A q \in SnapPeers : p <= q}
    IN  {{}, {PlainPeer}, first, first \cup {PlainPeer}}

PeerInit ==
    /\ origin \in 0..1
    /\ limit = MaxHash + 1
    /\ jobs = <<>>
    /\ accountTrie = EmptyTrie
    /\ pendingPuts = <<>>
    /\ done = FALSE
    /\ pool \in SmallPools
    /\ coverCount = [k \in Keys |-> 0]
    /\ lastOp = Op("init")

PeerSpec == PeerInit /\ [][Next]_vars

\* ---------------------------------------------------------------- claims
IsVouched(job) ==
    /\ job.vouched.made
    /\ job.vouched.keys = HashesOf(job.result)
    /\ job.vouched.values = ValuesOf(job.result)

RequestStep == lastOp'.op = "request"

StoreStep == lastOp'.op = "store"

\* the job whose request settles in this step
Settled(i) ==
    /\ i \in 1..Len(jobs)
    /\ jobs[i].state = "Active"
    /\ Len(jobs') = Len(jobs)
    /\ jobs'[i].state # "Active"
    /\ \A j \in 1..Len(jobs) : j # i => jobs'[j] = jobs[j]

Requeued(i) == jobs' = [jobs EXCEPT ![i].state = "New", ![i].peer = NoPeer]

\* a Completed job holds the batch the verifier accepted; any other job holds none
C1_CompletedOnlyVerified ==
    \A i \in 1..Len(jobs) :
        /\ jobs[i].state = "Completed" => IsVouched(jobs[i])
        /\ jobs[i].state # "Completed" => jobs[i].result = <<>> /\ ~jobs[i].vouched.made

\* C1: a job is Completed, and its batch handed to store(), only with the batch
\* that request() returned after the verifier returned true for exactly its
\* hashes and values; a batch the verifier refused (false or throw) or whose
\* post-check failed puts nothing in flight and sends its job back to New.
C1_StoreOnlyVerified ==
    /\ [](C1_CompletedOnlyVerified)
    /\ [][/\ StoreStep =>
              \E i \in 1..Len(jobs) :
                  /\ jobs[i].state = "Completed" /\ IsVouched(jobs[i])
                  /\ jobs' = Without(jobs, i)
                  /\ Len(pendingPuts') = Len(pendingPuts) + Len(jobs[i].result)
          /\ (RequestStep /\ lastOp'.verified /\ lastOp'.out # "accounts") =>
              /\ lastOp'.out = "undefined"
              /\ \E i \in 1..Len(jobs) : Settled(i) /\ Requeued(i)
              /\ pendingPuts' = pendingPuts /\ accountTrie' = accountTrie]_vars

\* a refused batch has sent its job back to New while a verified one is held
C1_Witness ==
    /\ lastOp.op = "request" /\ lastOp.verified /\ lastOp.out = "undefined"
    /\ \E i, j \in 1..Len(jobs) :
        /\ jobs[i].state = "New"
        /\ jobs[j].state = "Completed" /\ jobs[j].result # <<>>
    /\ pendingPuts # <<>>

\* C2: the tasks nextTasks() enqueues during a run never overlap: no key is
\* covered by two of them, and all lie in [origin, limit).
C2_TasksPartitionRange ==
    \A k \in Keys :
        /\ coverCount[k] <= 1
        /\ coverCount[k] > 0 => k < limit

\* C3: a null answer, or one lacking accounts or proof, makes request() return
\* undefined without calling the verifier; the job goes back to New with the
\* same task and no peer.
C3_IncompleteRequeues ==
    [][(RequestStep /\ lastOp'.resp \in {"null", "noAccounts", "noProof"}) =>
          /\ lastOp'.out = "undefined"
          /\ ~lastOp'.verified
          /\ \E i \in 1..Len(jobs) :
                /\ Settled(i) /\ Requeued(i)
                /\ jobs'[i].task = jobs[i].task]_vars

C3_Witness ==
    /\ lastOp.op = "request" /\ lastOp.resp = "noProof" /\ lastOp.out = "undefined"
    /\ NewIndexes # {}

\* C4: request() never rejects, so that no job is failed and dropped.
C4_NeverFailed == ~(lastOp.op = "request" /\ lastOp.out = "rejected")

\* C5: store() is called in task-generation order: the batch stored is that of
\* the oldest job not yet stored, so a batch completed early waits for its
\* predecessors.
C5_StoreInTaskOrder ==
    [][StoreStep => jobs[1].state = "Completed" /\ jobs' = Tail(jobs)]_vars

\* the second task's request has settled first, and its batch is held
C5_Witness ==
    /\ Len(jobs) >= 2
    /\ jobs[1].state = "Active"
    /\ jobs[2].state = "Completed"
    /\ lastOp.op = "request"

\* C6: when store() has resolved, none of its writes is still in flight, and
\* no write is in flight from before a later store() started.
C6_StoreResolvesAfterWrites ==
    /\ lastOp.op = "store" => pendingPuts = <<>>
    /\ \A i \in 1..Len(pendingPuts) : ~pendingPuts[i].late

\* C7: at most maxFetcherJobs jobs are Active.
C7_ActiveBounded == ActiveCount <= MaxFetcherJobs

\* the bound is what holds a queued task back: a capable peer is idle
C7_Witness ==
    /\ ActiveCount = MaxFetcherJobs
    /\ NewIndexes # {}
    /\ peer # {}

\* C8: after clear() no queued task is left.
C8_ClearDropsQueued == lastOp.op = "clear" => NewIndexes = {}

\* C9: with destroyWhenDone set, the engine eventually signals completion.
C9_EventuallyDone == DestroyWhenDone => <>done

\* C10: no failed write of store() escapes as an unhandled rejection.
C10_StoreFailureCaught == ~(lastOp.op = "putRejected" /\ lastOp.out = "unhandled")

\* the request that settled last answered with an account range and ran its
\* first loop to the end
RangeSettled ==
    /\ lastOp.op = "request"
    /\ lastOp.resp = "range"
    /\ ~lastOp.answer.putFails

LastAccounts == lastOp.answer.resp.accounts

\* entries with the same hash have the same canonical value
Consistent(accounts) ==
    \A i, j \in 1..Len(accounts) :
        accounts[i].hash = accounts[j].hash =>
            convertSlimAccount(accounts[i].body) = convertSlimAccount(accounts[j].body)

\* C11: the verifier is called on the range requested for the job: with the
\* fetcher's root, the task's origin as first key and the hash of the last
\* returned account as last key.
C11_VerifierGetsTaskRange ==
    (lastOp.op = "request" /\ lastOp.verified) =>
        /\ lastOp.call.root = Root
        /\ lastOp.call.firstKey = lastOp.task.origin
        /\ LastAccounts # <<>> =>
              lastOp.call.lastKey = LastAccounts[Len(LastAccounts)].hash

BusyPeers == {jobs[j].peer : j \in 1..Len(jobs)}

NoIdleSnapPeer == (pool \cap SnapPeers) \ BusyPeers = {}

DispatchStep == lastOp'.op = "dispatch"

\* C12: the peer a task is dispatched to was idle and advertises snap; while no
\* such peer exists nothing is dispatched and no queued job is failed or
\* dropped: the jobs that are New stay New.
C12_PeerIdleAndSnap ==
    [][/\ DispatchStep =>
            \E i \in NewIndexes :
                /\ jobs'[i].peer \in (pool \cap SnapPeers) \ BusyPeers
                /\ jobs' = [jobs EXCEPT ![i].state = "Active", ![i].peer = jobs'[i].peer]
       /\ NoIdleSnapPeer =>
            /\ ~DispatchStep
            /\ Cardinality(NewIndexes') >= Cardinality(NewIndexes)
            /\ \A i \in NewIndexes :
                   \E j \in NewIndexes' : jobs'[j] = jobs[i]]_vars

\* the one snap peer is busy, a peer without snap is idle, and a task waits
\* although the concurrency bound would let it start
C12_Witness ==
    /\ NoIdleSnapPeer
    /\ PlainPeer \in pool \ BusyPeers
    /\ NewIndexes # {}
    /\ ActiveCount >= 1
    /\ ActiveCount < MaxFetcherJobs
    /\ lastOp.op = "clear"

\* C13: a response with an empty accounts list makes request() return
\* undefined whatever the proof and the verifier say, and no job is Completed
\* with an empty batch.
C13_EmptyAccountsRequeue ==
    /\ (RangeSettled /\ LastAccounts = <<>>) => lastOp.out = "undefined"
    /\ \A i \in 1..Len(jobs) : jobs[i].state = "Completed" => jobs[i].result # <<>>

\* C14: the ordering check only logs: a response whose hashes are out of order
\* is normalized in full and handed to the verifier, and request() returns
\* the batch exactly when the verifier returns true and the read-back passes,
\* as it does for an ordered response; otherwise it returns undefined.
C14_OrderingLogOnly ==
    RangeSettled =>
        /\ lastOp.verified
        /\ lastOp.call.keys = HashesOf(LastAccounts)
        /\ lastOp.call.values = ValuesOf(LastAccounts)
        /\ lastOp.out = "accounts" <=>
              (lastOp.answer.verdict = "true" /\ Consistent(LastAccounts))
        /\ lastOp.out # "accounts" => lastOp.out = "undefined"

\* a response out of order has been accepted and completes its job
C14_Witness ==
    /\ RangeSettled
    /\ ~Ordered(LastAccounts)
    /\ lastOp.out = "accounts"
    /\ \E i \in 1..Len(jobs) :
          jobs[i].state = "Completed" /\ ~Ordered(jobs[i].result)

\* C15: this.accountTrie changes only by a write that store() started:
\* request(), process(), tasks(), nextTasks(), clear() and peer() neither
\* change it nor start a write, whatever their outcome.
C15_OnlyStoreWrites ==
    [][/\ accountTrie' # accountTrie =>
            /\ lastOp'.op = "putApplied"
            /\ pendingPuts # <<>>
            /\ accountTrie' = TriePut(accountTrie, Head(pendingPuts).key,
                                      Head(pendingPuts).value)
       /\ Len(pendingPuts') > Len(pendingPuts) => StoreStep
       /\ lastOp'.op \in {"request", "nextTasks", "dispatch", "clear"} =>
            accountTrie' = accountTrie /\ pendingPuts' = pendingPuts]_vars

\* request() has returned a batch and the trie is as it was constructed
C15_Witness ==
    /\ lastOp.op = "request" /\ lastOp.out = "accounts"
    /\ accountTrie = EmptyTrie
    /\ pendingPuts = <<>>

\* C16: the batch a job is Completed with, and the batch store() is called
\* with, is the accounts list of the accepted response, element for element
\* and in wire form.
C16_StoreGetsWireBatch ==
    [][/\ (RequestStep /\ lastOp'.out = "accounts") =>
            \E i \in 1..Len(jobs) :
                /\ Settled(i)
                /\ jobs'[i].state = "Completed"
                /\ jobs'[i].result = lastOp'.answer.resp.accounts
       /\ StoreStep =>
            /\ lastOp.op = "request" /\ lastOp.out = "accounts"
            /\ lastOp'.result = LastAccounts]_vars

\* store() has been handed two accounts, the first in the wire form that spells
\* out the hashes
C16_Witness ==
    /\ lastOp.op = "store"
    /\ Len(lastOp.result) >= 2
    /\ lastOp.result[1].body = BodyS
    /\ lastOp.result[2].body = BodyA

Converted == lastOp.op \in {"convert", "convertOutput", "convertDecoded"}

\* the 4-tuple the claim names for a wire body
CanonicalFields(body) ==
    <<body[1], body[2],
      IF body[3] = <<>> THEN KECCAK256_RLP ELSE body[3],
      IF body[4] = <<>> THEN KECCAK256_NULL ELSE body[4]>>

\* C18: convertSlimAccount(body) is the encoding of (nonce, balance,
\* storageRoot', codeHash'): the empty-trie root for an empty storage root, the
\* empty-code hash for an empty code hash, every other field as it came; and
\* body is left as it was.
C18_SentinelSubstitution ==
    Converted =>
        /\ lastOp.once.form = "bytes"
        /\ lastOp.once.v = RlpEncode(CanonicalFields(lastOp.body))
        /\ RlpDecode(lastOp.once.v) = CanonicalFields(lastOp.body)
        /\ lastOp.after = lastOp.body

\* an empty storage root beside a code hash that is given
C18_Witness ==
    /\ lastOp.op = "convert"
    /\ lastOp.body[3] = <<>>
    /\ lastOp.body[4] = <<7>>
    /\ RlpDecode(lastOp.once.v)[3] = KECCAK256_RLP
    /\ RlpDecode(lastOp.once.v)[4] = <<7>>

\* C19: convertSlimAccount applied to its own result gives that result.
C19_CodecIdempotent ==
    lastOp.op = "convertOutput" => lastOp.again = lastOp.once

\* C19, amended: convertSlimAccount applied to the record decoded from its
\* result gives that result again.
C19_IdempotentOnDecoded ==
    lastOp.op = "convertDecoded" => lastOp.again = lastOp.once

\* both hashes were substituted the first time and are passed through the second
C19_Witness ==
    /\ lastOp.op = "convertDecoded"
    /\ lastOp.body[3] = <<>>
    /\ lastOp.body[4] = <<>>
    /\ lastOp.again.form = "bytes"
    /\ RlpDecode(lastOp.again.v)[3] = KECCAK256_RLP

\* C20: a batch request() returns has equal canonical values on equal
\* hashes, and a response that has not makes request() return undefined
\* even when the verifier returns true.
C20_BatchConsistent ==
    /\ \A i \in 1..Len(jobs) : Consistent(jobs[i].result)
    /\ lastOp.op = "store" => Consistent(lastOp.result)
    /\ (RangeSettled /\ ~Consistent(LastAccounts)) => lastOp.out = "undefined"

\* the verifier accepted a response with one hash under two values, and the
\* job is back in the queue
C20_Witness ==
    /\ RangeSettled
    /\ lastOp.answer.verdict = "true"
    /\ ~Consistent(LastAccounts)
    /\ lastOp.out = "undefined"
    /\ NewIndexes # {}

\* every write of the store() calls made so far has landed
StoreLanded ==
    /\ lastOp.op \in {"store", "putApplied"}
    /\ lastOp.out = ""
    /\ pendingPuts = <<>>

RECURSIVE DropRepeats(_)
DropRepeats(batch) ==
    IF batch = <<>> THEN <<>>
    ELSE IF \E i \in 1..Len(Tail(batch)) : Tail(batch)[i] = Head(batch)
         THEN DropRepeats(Tail(batch))
         ELSE <<Head(batch)>> \o DropRepeats(Tail(batch))

RECURSIVE Written(_, _)
Written(trie, batch) ==
    IF batch = <<>> THEN trie
    ELSE Written([trie EXCEPT ![Head(batch).hash] = convertSlimAccount(Head(batch).body)],
                 Tail(batch))

\* C17: once the writes have landed, the trie holds the same after store(batch)
\* and after store(batch); store(batch): the trie it started from with each
\* hash of the batch under the canonical value of its last entry; and that is
\* also what the batch without its repeated entries gives.
C17_StoreIdempotent ==
    StoreLanded =>
        /\ accountTrie = Written(lastOp.start, lastOp.result)
        /\ accountTrie = Written(lastOp.start, DropRepeats(lastOp.result))
        /\ \A h \in Hashes :
              (\A i \in 1..Len(lastOp.result) : lastOp.result[i].hash # h)
                  => accountTrie[h] = lastOp.start[h]

\* both calls of store() have landed, with a batch that repeats an entry and
\* overwrites what the trie held
C17_Witness ==
    /\ StoreLanded
    /\ lastOp.calls = 2
    /\ Len(lastOp.result) >= 2
    /\ lastOp.result[1] = lastOp.result[2]
    /\ accountTrie # lastOp.start
    /\ lastOp.start # EmptyTrie

====
